---- MODULE Spec2Model ----
(***************************************************************************)
(* Model of src/cmd/partition.rs (xsv partition): the sequential partition *)
(* driver, the WriterPool with its LRU cache of open writers, and the      *)
(* WriterGenerator that derives unique file name stems from keys.          *)
(*                                                                         *)
(* Byte strings and Strings are sequences of one-character strings, so     *)
(* that truncation, sanitisation and "{}_{}" formatting are computed.      *)
(***************************************************************************)
EXTENDS Integers, Sequences, FiniteSets, TLC

VARIABLES
    args,       \* Args: the flags of the run
    input,      \* the records the reader will yield, in order
    pos,        \* index of the next record to read
    pc,         \* position of sequential_partition
    row,        \* the record read last
    key,        \* the key computed for it
    writers,    \* lru::LruCache<Vec<u8>, BoxedWriter>: entries, most recent first
    wtr,        \* the BoxedWriter new_writer returned, not yet put in the cache
    seen_keys,  \* WriterPool.seen_keys
    gen,        \* WriterGenerator: counter and used
    files,      \* the output directory: file name stem -> records on disk
    opens,      \* history: every open of a destination, <<key, value, kind>>
    routed,     \* history: for each record written, the stem it was written to
    ret,        \* result of the last direct unique_value call
    issued,     \* history: the values unique_value has returned, in order
    calls,      \* number of direct unique_value calls
    outdir,     \* whether run has created the output directory
    result,     \* what run returns: None while running, Ok or Err
    faults,     \* number of I/O failures the environment may still cause
    failures,   \* history: the I/O failures that happened
    closes      \* history: the path of every writer dropped

vars == <<args, input, pos, pc, row, key, writers, wtr, seen_keys, gen,
          files, opens, routed, ret, issued, calls, outdir, result, faults,
          failures, closes>>

poolVars == <<args, input, pos, pc, row, key, writers, wtr, seen_keys,
              files, opens, routed>>

----------------------------------------------------------------------------
(* Bounds *)

MaxRows == 3        \* longest input
MaxCap == 2         \* largest --max-open-files
CounterBits == 2    \* width of the usize counter
MaxCalls == 5       \* longest sequence of direct unique_value calls

MaxUsize == 2 ^ CounterBits - 1

\* Option: None, Some(x)
None == <<"None">>
Some(x) == <<"Some", x>>

\* CliResult: Ok(()), Err(e)
Ok == <<"Ok">>
Err(e) == <<"Err", e>>

----------------------------------------------------------------------------
(* Strings *)

Letters == {"a", "b", "c", "A", "C", "L", "N", "Y"}
DigitChars == <<"0", "1", "2", "3", "4", "5", "6", "7", "8", "9">>
Digits == {DigitChars[i] : i \in 1..10}

\* the characters the regex \W does not match
WordChars == Letters \cup Digits \cup {"_"}

\* bytes that are valid one-byte UTF-8; any other byte is malformed
AsciiBytes == WordChars \cup {"!", "?"}
Replacement == "U+FFFD"

RECURSIVE Decimal(_)
\* format!("{}", n) for a usize
Decimal(n) ==
    IF n < 10 THEN <<DigitChars[n + 1]>>
    ELSE Decimal(n \div 10) \o <<DigitChars[(n % 10) + 1]>>

\* String::from_utf8_lossy
from_utf8_lossy(bytes) ==
    [i \in 1..Len(bytes) |->
        IF bytes[i] \in AsciiBytes THEN bytes[i] ELSE Replacement]

\* non_word_char.replace_all(s, "")
replace_all(s) == SelectSeq(s, LAMBDA ch : ch \in WordChars)

Base(k) ==
    LET safe == replace_all(from_utf8_lossy(k))
    IN  IF safe = <<>> THEN <<"e", "m", "p", "t", "y">> ELSE safe

Candidate(base, counter) == base \o <<"_">> \o Decimal(counter)

----------------------------------------------------------------------------
(* WriterGenerator *)

\* a generator whose counter starts at 0
WriterGeneratorNewFromZero(template) ==
    [template |-> template, counter |-> 0, used |-> {}]

WriterGeneratorNew(template) ==
    [template |-> template, counter |-> 1, used |-> {}]

\* a loop that returns its first candidate without looking it up in used
ProbeUnchecked(base, counter, used) ==
    LET candidate == Candidate(base, counter)
    IN  IF counter = MaxUsize
        THEN [panic |-> TRUE, value |-> None,
              counter |-> counter, used |-> used]
        ELSE [panic |-> FALSE, value |-> candidate,
              counter |-> counter + 1, used |-> used \cup {candidate}]

RECURSIVE ProbeWrapping(_, _, _)
\* a loop whose counter wraps around to 0 (wrapping_add)
ProbeWrapping(base, counter, used) ==
    LET candidate == Candidate(base, counter)
        next == (counter + 1) % (MaxUsize + 1)
    IN  IF candidate \notin used
        THEN [panic |-> FALSE, value |-> candidate,
              counter |-> next, used |-> used \cup {candidate}]
        ELSE ProbeWrapping(base, next, used)

RECURSIVE Probe(_, _, _)
\* the loop of unique_value; checked_add panics when counter is usize::MAX
Probe(base, counter, used) ==
    LET candidate == Candidate(base, counter)
    IN  IF counter = MaxUsize
        THEN [panic |-> TRUE, value |-> None,
              counter |-> counter, used |-> used]
        ELSE IF candidate \notin used
        THEN [panic |-> FALSE, value |-> candidate,
              counter |-> counter + 1, used |-> used \cup {candidate}]
        ELSE Probe(base, counter + 1, used)

unique_value(g, k) ==
    LET base == Base(k)
        r == IF base \notin g.used
             THEN [panic |-> FALSE, value |-> base,
                   counter |-> g.counter, used |-> g.used \cup {base}]
             ELSE Probe(base, g.counter, g.used)
    IN  [panic |-> r.panic, value |-> r.value,
         gen |-> [g EXCEPT !.counter = r.counter, !.used = r.used]]

----------------------------------------------------------------------------
(* Direct calls of unique_value on a fresh generator *)

GenKeys ==
    { <<"a", "!", "b">>, <<"a", "?", "b">>, <<"a", "b">>,
      <<"a", "b", "_", "1">>, <<>>, <<"!">>, <<"a", "xFF", "b">> }

DefaultTemplate == [prefix |-> <<>>, suffix |-> <<".csv">>, append |-> FALSE]

NoRet == [key |-> None, value |-> None, panic |-> FALSE,
          before |-> WriterGeneratorNew(DefaultTemplate)]

GenInit ==
    /\ gen = WriterGeneratorNew(DefaultTemplate)
    /\ ret = NoRet
    /\ issued = <<>>
    /\ calls = 0
    /\ args = None
    /\ input = <<>>
    /\ pos = 0
    /\ pc = "gen"
    /\ row = <<>>
    /\ key = <<>>
    /\ writers = <<>>
    /\ wtr = None
    /\ seen_keys = {}
    /\ files = <<>>
    /\ opens = <<>>
    /\ routed = <<>>
    /\ outdir = FALSE
    /\ result = None
    /\ faults = 0
    /\ failures = <<>>
    /\ closes = <<>>

Allocate(k) ==
    /\ pc = "gen"
    /\ calls < MaxCalls
    /\ LET r == unique_value(gen, k)
       IN  /\ gen' = r.gen
           /\ ret' = [key |-> k, value |-> r.value, panic |-> r.panic,
                      before |-> gen]
           /\ issued' = IF r.panic THEN issued
                        ELSE Append(issued, [key |-> k, value |-> r.value])
           /\ pc' = IF r.panic THEN "panicked" ELSE "gen"
    /\ calls' = calls + 1
    /\ UNCHANGED <<args, input, pos, row, key, writers, wtr, seen_keys,
                   files, opens, routed, outdir, result, faults, failures,
                   closes>>

GenNext == \E k \in GenKeys : Allocate(k)

GenSpec == GenInit /\ [][GenNext]_vars

----------------------------------------------------------------------------
(* FilenameTemplate and the files of the output directory *)

Templates ==
    { [prefix |-> <<>>, suffix |-> <<".csv">>, append |-> a] : a \in BOOLEAN }

\* FilenameTemplate::filename: the value substituted for "{}"
filename(template, value) == template.prefix \o value \o template.suffix

\* FilenameTemplate::writer: opens the file, returns a writer with an empty
\* buffer
TemplateWriter(fs, template, value) ==
    LET path == filename(template, value)
        old == IF path \in DOMAIN fs THEN fs[path] ELSE <<>>
    IN  [wtr |-> [path |-> path, buf |-> <<>>],
         files |-> [p \in DOMAIN fs \cup {path} |->
                     IF p = path
                     THEN (IF template.append THEN old ELSE <<>>)
                     ELSE fs[p]]]

\* drop of a csv::Writer: the buffer is flushed to the file, the file closed
DropWriter(fs, template, w) ==
    LET old == fs[w.path]
    IN  [fs EXCEPT ![w.path] =
            IF template.append THEN old \o w.buf
            ELSE w.buf \o SubSeq(old, Len(w.buf) + 1, Len(old))]

RECURSIVE DropAll(_, _, _)
DropAll(fs, template, ws) ==
    IF ws = <<>> THEN fs
    ELSE DropAll(DropWriter(fs, template, Head(ws)), template, Tail(ws))

\* the paths of a sequence of writers
Paths(ws) == [i \in DOMAIN ws |-> ws[i].path]

\* csv::Writer::write_record
write_record(w, rec) == [w EXCEPT !.buf = Append(@, rec)]

----------------------------------------------------------------------------
(* lru::LruCache: entries [key, val], most recently used first *)

LruNew(cap) == [cap |-> cap, list |-> <<>>]

LruLen(c) == Len(c.list)

LruKeys(c) == {c.list[i].key : i \in 1..Len(c.list)}

\* contains does not touch the recency order
LruContains(c, k) == k \in LruKeys(c)

LruRemove(list, k) == SelectSeq(list, LAMBDA e : e.key # k)

\* a put that evicts the most recently used entry of a full cache
LruPutEvictsNewest(c, k, v) ==
    IF ~LruContains(c, k) /\ Len(c.list) >= c.cap /\ c.list # <<>>
    THEN [cache |-> [c EXCEPT !.list = <<[key |-> k, val |-> v]>>
                                  \o Tail(c.list)],
          dropped |-> <<Head(c.list).val>>]
    ELSE [cache |-> [c EXCEPT !.list = <<[key |-> k, val |-> v]>>
                                  \o LruRemove(c.list, k)],
          dropped |-> <<>>]

\* put: replaces the value of a resident key, otherwise evicts the least
\* recently used entry of a full cache; the new entry is most recent
LruPut(c, k, v) ==
    IF LruContains(c, k)
    THEN [cache |-> [c EXCEPT !.list = <<[key |-> k, val |-> v]>>
                                          \o LruRemove(c.list, k)],
          dropped |-> <<(CHOOSE e \in {c.list[i] : i \in 1..Len(c.list)} :
                            e.key = k).val>>]
    ELSE IF Len(c.list) >= c.cap
    THEN [cache |-> [c EXCEPT !.list = <<[key |-> k, val |-> v]>>
                                  \o SubSeq(c.list, 1, Len(c.list) - 1)],
          dropped |-> <<c.list[Len(c.list)].val>>]
    ELSE [cache |-> [c EXCEPT !.list = <<[key |-> k, val |-> v]>> \o c.list],
          dropped |-> <<>>]

\* a get_mut that leaves the recency order as it is
LruGetMutInPlace(c, k) == c

\* get_mut: the entry becomes the most recently used
LruGetMut(c, k) ==
    LET e == CHOOSE x \in {c.list[i] : i \in 1..Len(c.list)} : x.key = k
    IN  [c EXCEPT !.list = <<e>> \o LruRemove(c.list, k)]

LruVals(c) == [i \in 1..Len(c.list) |-> c.list[i].val]

----------------------------------------------------------------------------
(* Args::sequential_partition and WriterPool *)

ColVals ==
    { <<"N", "Y", "C">>, <<"L", "A">>, <<"a", "!", "b">>,
      <<"a", "!", "c">>, <<"a", "b">> }

PrefixLen == 2      \* the --prefix-length tried

Headers == << <<"v">>, <<"c", "i", "t", "y">>, <<"w">> >>
key_col == 2

\* the i-th record of an input whose key column holds col
Record(i, col) == << Decimal(i), col, <<"x">> >>

Inputs ==
    UNION { { [i \in 1..n |-> Record(i, cols[i])] : cols \in [1..n -> ColVals] }
            : n \in 0..MaxRows }

\* the column indices the selector <column> resolves to
Selections == { <<>>, <<key_col>>, <<1, key_col>> }

ConfigError == <<"can only partition on one column">>
IoError == <<"io::Error">>

\* a key_column that takes the first of one or more selected columns
key_columnFirst(select_cols) ==
    IF Len(select_cols) >= 1 THEN <<"Ok", select_cols[1]>> ELSE Err(ConfigError)

\* Args::key_column, lines 81-88
key_column(select_cols) ==
    IF Len(select_cols) = 1 THEN <<"Ok", select_cols[1]>> ELSE Err(ConfigError)

ArgsSet ==
    [ flag_max_open_files : 1..MaxCap,
      flag_prefix_length : {None, Some(PrefixLen)},
      flag_drop : BOOLEAN,
      flag_no_headers : BOOLEAN,
      flag_filename : Templates,
      arg_column : Selections ]

\* lines 116-120: the key of a record
KeyOf(a, column) ==
    IF a.flag_prefix_length # None /\ a.flag_prefix_length[2] < Len(column)
    THEN SubSeq(column, 1, a.flag_prefix_length[2])
    ELSE column

\* a filter that drops the field before the key column
DropColumnBefore(rec) == SelectSeq([i \in 1..Len(rec) |-> <<i, rec[i]>>],
                                   LAMBDA e : e[1] # key_col - 1)

\* the filter_map of lines 123-129 and 232-238
DropColumn(rec) == SelectSeq([i \in 1..Len(rec) |-> <<i, rec[i]>>],
                             LAMBDA e : e[1] # key_col)

WithoutKeyCol(rec) ==
    LET kept == DropColumn(rec) IN [i \in 1..Len(kept) |-> kept[i][2]]

Written(a, rec) == IF a.flag_drop THEN WithoutKeyCol(rec) ELSE rec

\* a cache with room for one writer more than --max-open-files
NewWritersOneMore(a) == LruNew(a.flag_max_open_files + 1)

\* line 98: the cache of open writers
NewWriters(a) == LruNew(a.flag_max_open_files)

\* the state when run is entered with args and input chosen, and n I/O
\* failures to come
Entered(n) ==
    /\ pos = 1
    /\ pc = "run"
    /\ outdir = FALSE
    /\ result = None
    /\ faults = n
    /\ failures = <<>>
    /\ closes = <<>>
    /\ row = <<>>
    /\ key = <<>>
    /\ writers = NewWriters(args)
    /\ wtr = None
    /\ seen_keys = {}
    /\ gen = WriterGeneratorNew(args.flag_filename)
    /\ files = <<>>
    /\ opens = <<>>
    /\ routed = <<>>
    /\ ret = NoRet
    /\ issued = <<>>
    /\ calls = 0

Init == args \in ArgsSet /\ input \in Inputs /\ Entered(0)

\* run, line 62: fs::create_dir_all(&args.arg_outdir)
CreateDir ==
    /\ pc = "run"
    /\ outdir' = TRUE
    /\ pc' = "partition"
    /\ UNCHANGED <<args, input, pos, row, key, writers, wtr, seen_keys, gen,
                   files, opens, routed, ret, issued, calls, result, faults,
                   failures, closes>>

\* sequential_partition, lines 92-95: the reader is made, the headers read,
\* the key column looked up; an Err is returned at once
Partition ==
    /\ pc = "partition"
    /\ LET kc == key_column(args.arg_column)
       IN  IF kc[1] = "Ok"
           THEN pc' = "read" /\ result' = result
           ELSE pc' = "failed" /\ result' = kc
    /\ UNCHANGED <<args, input, pos, row, key, writers, wtr, seen_keys, gen,
                   files, opens, routed, ret, issued, calls, outdir, faults,
                   failures, closes>>

\* line 113-120: a record is read and its key computed
ReadRecord ==
    /\ pc = "read"
    /\ pos <= Len(input)
    /\ row' = input[pos]
    /\ key' = KeyOf(args, input[pos][key_col])
    /\ pos' = pos + 1
    /\ pc' = "writer"
    /\ UNCHANGED <<args, input, writers, wtr, seen_keys, gen, files, opens,
                   routed, ret, issued, calls>>
    /\ UNCHANGED <<outdir, result, faults, failures, closes>>

\* line 113, 134: end of input; the cache and its writers are dropped
EndOfInput ==
    /\ pc = "read"
    /\ pos > Len(input)
    /\ files' = DropAll(files, gen.template, LruVals(writers))
    /\ writers' = [writers EXCEPT !.list = <<>>]
    /\ pc' = "done"
    /\ UNCHANGED <<args, input, pos, row, key, wtr, seen_keys, gen, opens,
                   routed, ret, issued, calls>>
    /\ closes' = closes \o Paths(LruVals(writers))
    /\ result' = Ok
    /\ UNCHANGED <<outdir, faults, failures>>

\* WriterPool::writer, the key is resident: lines 253, 257
WriterHit ==
    /\ pc = "writer"
    /\ LruContains(writers, key)
    /\ writers' = LruGetMut(writers, key)
    /\ pc' = "write"
    /\ UNCHANGED <<args, input, pos, row, key, wtr, seen_keys, gen, files,
                   opens, routed, ret, issued, calls>>
    /\ UNCHANGED <<outdir, result, faults, failures, closes>>

\* WriterGenerator::writer and re_open: a value is generated, the file opened
GenOpen(kind) ==
    LET r == unique_value(gen, key)
        o == TemplateWriter(files, gen.template, r.value)
    IN  /\ gen' = r.gen
        /\ IF r.panic
           THEN /\ pc' = "panicked"
                /\ UNCHANGED <<wtr, files, opens>>
           ELSE /\ pc' = "put"
                /\ files' = o.files
                /\ opens' = Append(opens, [key |-> key, value |-> r.value,
                                           path |-> o.wtr.path, kind |-> kind])
                /\ wtr' = IF kind = "create" /\ ~args.flag_no_headers
                          THEN Some(write_record(o.wtr, Written(args, Headers)))
                          ELSE Some(o.wtr)

\* a new_writer that does not record the key in seen_keys
NewWriterCreateUnseen ==
    /\ pc = "writer"
    /\ ~LruContains(writers, key)
    /\ key \notin seen_keys
    /\ GenOpen("create")
    /\ UNCHANGED <<args, input, pos, row, key, writers, seen_keys, routed,
                   ret, issued, calls>>
    /\ UNCHANGED <<outdir, result, faults, failures, closes>>

\* WriterPool::new_writer for a key never seen: lines 227-243
NewWriterCreate ==
    /\ pc = "writer"
    /\ ~LruContains(writers, key)
    /\ key \notin seen_keys
    /\ seen_keys' = seen_keys \cup {key}
    /\ GenOpen("create")
    /\ UNCHANGED <<args, input, pos, row, key, writers, routed, ret, issued,
                   calls>>
    /\ UNCHANGED <<outdir, result, faults, failures, closes>>

\* WriterPool::new_writer for a key seen before: lines 223-225
NewWriterReOpen ==
    /\ pc = "writer"
    /\ ~LruContains(writers, key)
    /\ key \in seen_keys
    /\ GenOpen("re_open")
    /\ UNCHANGED <<args, input, pos, row, key, writers, seen_keys, routed,
                   ret, issued, calls>>
    /\ UNCHANGED <<outdir, result, faults, failures, closes>>

\* a writer that drops the new writer instead of putting it in the cache
PutWithoutInsert ==
    /\ pc = "put"
    /\ files' = DropAll(files, gen.template, <<wtr[2]>>)
    /\ closes' = Append(closes, wtr[2].path)
    /\ IF LruContains(writers, key)
       THEN writers' = LruGetMut(writers, key) /\ pc' = "write"
       ELSE writers' = writers /\ pc' = "unwrap_none"
    /\ wtr' = None
    /\ UNCHANGED <<args, input, pos, row, key, seen_keys, gen, opens, routed,
                   ret, issued, calls, outdir, result, faults, failures>>

\* WriterPool::writer, lines 254 and 257: the new writer is put in the
\* cache, the writer put out of it is dropped; get_mut(key).unwrap() panics
\* if the key is not resident
Put ==
    /\ pc = "put"
    /\ LET p == LruPut(writers, key, wtr[2])
       IN  /\ files' = DropAll(files, gen.template, p.dropped)
           /\ IF LruContains(p.cache, key)
              THEN writers' = LruGetMut(p.cache, key) /\ pc' = "write"
              ELSE writers' = p.cache /\ pc' = "unwrap_none"
    /\ wtr' = None
    /\ UNCHANGED <<args, input, pos, row, key, seen_keys, gen, opens, routed,
                   ret, issued, calls>>
    /\ closes' = closes \o Paths(LruPut(writers, key, wtr[2]).dropped)
    /\ UNCHANGED <<outdir, result, faults, failures>>

\* lines 122-132: the record is written to the writer of its key
WriteRecord ==
    /\ pc = "write"
    /\ LET w == writers.list[1].val
       IN  /\ writers' = [writers EXCEPT
                            !.list[1].val = write_record(w, Written(args, row))]
           /\ routed' = Append(routed, w.path)
    /\ pc' = "read"
    /\ UNCHANGED <<args, input, pos, row, key, wtr, seen_keys, gen, files,
                   opens, ret, issued, calls>>
    /\ UNCHANGED <<outdir, result, faults, failures, closes>>

Next ==
    \/ CreateDir
    \/ Partition
    \/ ReadRecord
    \/ EndOfInput
    \/ WriterHit
    \/ NewWriterCreate
    \/ NewWriterReOpen
    \/ Put
    \/ WriteRecord

Spec == Init /\ [][Next]_vars

----------------------------------------------------------------------------
(* The run on inputs one record longer, with the default flags: enough     *)
(* requests for the recency order to differ from the order of insertion    *)

LongInputs ==
    UNION { { [i \in 1..n |-> Record(i, cols[i])] : cols \in [1..n -> ColVals] }
            : n \in 0..(MaxRows + 1) }

DefaultArgs ==
    { [ flag_max_open_files |-> n,
        flag_prefix_length |-> None,
        flag_drop |-> FALSE,
        flag_no_headers |-> FALSE,
        flag_filename |-> DefaultTemplate,
        arg_column |-> <<key_col>> ] : n \in 1..MaxCap }

LongInit == args \in DefaultArgs /\ input \in LongInputs /\ Entered(0)

LongSpec == LongInit /\ [][Next]_vars

----------------------------------------------------------------------------
(* The run with I/O failures: a read, an open, a write or the flush of a   *)
(* dropped writer may fail, at most MaxFaults times in a run               *)

MaxFaults == 1

Failed(op) ==
    /\ faults > 0
    /\ faults' = faults - 1
    /\ failures' = Append(failures, [op |-> op, key |-> key])

\* line 113: read_byte_record returns an Err
ReadFails ==
    /\ pc = "read"
    /\ Failed("read")
    /\ result' = Err(IoError)
    /\ pc' = "error"
    /\ UNCHANGED <<args, input, pos, row, key, writers, wtr, seen_keys, gen,
                   files, opens, routed, ret, issued, calls, outdir, closes>>

\* an open that evicts the least recently used writer before it fails
OpenFailsAfterEvict ==
    /\ pc = "writer"
    /\ ~LruContains(writers, key)
    /\ ~unique_value(gen, key).panic
    /\ Failed("open")
    /\ seen_keys' = seen_keys \cup {key}
    /\ gen' = unique_value(gen, key).gen
    /\ writers' = IF LruLen(writers) >= writers.cap
                  THEN [writers EXCEPT
                          !.list = SubSeq(@, 1, Len(@) - 1)]
                  ELSE writers
    /\ result' = Err(IoError)
    /\ pc' = "error"
    /\ UNCHANGED <<args, input, pos, row, key, wtr, files, opens,
                   routed, ret, issued, calls, outdir, closes>>

\* WriterPool::writer on a miss, lines 254, 225/229, 164/173: the template's
\* writer returns an Err, which `?` returns from new_writer and from writer
\* before put is called
OpenFails ==
    /\ pc = "writer"
    /\ ~LruContains(writers, key)
    /\ ~unique_value(gen, key).panic
    /\ Failed("open")
    /\ seen_keys' = seen_keys \cup {key}
    /\ gen' = unique_value(gen, key).gen
    /\ result' = Err(IoError)
    /\ pc' = "error"
    /\ UNCHANGED <<args, input, pos, row, key, writers, wtr, files, opens,
                   routed, ret, issued, calls, outdir, closes>>

\* WriterPool::new_writer, lines 229-241: the file is opened, writing the
\* header returns an Err; the writer is dropped when new_writer returns
HeaderFails ==
    /\ pc = "writer"
    /\ ~LruContains(writers, key)
    /\ key \notin seen_keys
    /\ ~args.flag_no_headers
    /\ ~unique_value(gen, key).panic
    /\ Failed("write")
    /\ seen_keys' = seen_keys \cup {key}
    /\ LET r == unique_value(gen, key)
           o == TemplateWriter(files, gen.template, r.value)
       IN  /\ gen' = r.gen
           /\ files' = o.files
           /\ opens' = Append(opens, [key |-> key, value |-> r.value,
                                      path |-> o.wtr.path, kind |-> "create"])
           /\ closes' = Append(closes, o.wtr.path)
    /\ result' = Err(IoError)
    /\ pc' = "error"
    /\ UNCHANGED <<args, input, pos, row, key, writers, wtr, routed, ret,
                   issued, calls, outdir>>

\* lines 123-131: writing the record returns an Err
WriteFails ==
    /\ pc = "write"
    /\ Failed("write")
    /\ result' = Err(IoError)
    /\ pc' = "error"
    /\ UNCHANGED <<args, input, pos, row, key, writers, wtr, seen_keys, gen,
                   files, opens, routed, ret, issued, calls, outdir, closes>>

\* an exit that leaves the cache and its writers as they are
PropagateWithoutDrop ==
    /\ pc = "error"
    /\ pc' = "failed"
    /\ UNCHANGED <<args, input, pos, row, key, writers, wtr, seen_keys, gen,
                   files, opens, routed, ret, issued, calls, outdir, result,
                   faults, failures, closes>>

\* lines 113, 121, 129, 131: `?` returns the Err from sequential_partition;
\* the cache and its writers are dropped
Propagate ==
    /\ pc = "error"
    /\ files' = DropAll(files, gen.template, LruVals(writers))
    /\ closes' = closes \o Paths(LruVals(writers))
    /\ writers' = [writers EXCEPT !.list = <<>>]
    /\ pc' = "failed"
    /\ UNCHANGED <<args, input, pos, row, key, wtr, seen_keys, gen, opens,
                   routed, ret, issued, calls, outdir, result, faults,
                   failures>>

\* line 254: as Put, but the flush of the writer put out of the cache fails
\* in its drop, which cannot return the Err: its buffer is lost
PutFlushFails ==
    /\ pc = "put"
    /\ LET p == LruPut(writers, key, wtr[2])
       IN  /\ p.dropped # <<>>
           /\ writers' = LruGetMut(p.cache, key)
           /\ closes' = closes \o Paths(p.dropped)
    /\ Failed("flush")
    /\ wtr' = None
    /\ pc' = "write"
    /\ UNCHANGED <<args, input, pos, row, key, seen_keys, gen, files, opens,
                   routed, ret, issued, calls, outdir, result>>

\* line 134: as EndOfInput, but the flush of one writer fails in its drop
EndFlushFails ==
    /\ pc = "read"
    /\ pos > Len(input)
    /\ \E i \in DOMAIN writers.list :
          files' = DropAll(files, gen.template,
                           SelectSeq(LruVals(writers),
                                     LAMBDA w : w # writers.list[i].val))
    /\ Failed("flush")
    /\ closes' = closes \o Paths(LruVals(writers))
    /\ writers' = [writers EXCEPT !.list = <<>>]
    /\ result' = Ok
    /\ pc' = "done"
    /\ UNCHANGED <<args, input, pos, row, key, wtr, seen_keys, gen, opens,
                   routed, ret, issued, calls, outdir>>

FaultInit == args \in ArgsSet /\ input \in Inputs /\ Entered(MaxFaults)

FaultNext ==
    \/ Next
    \/ ReadFails
    \/ OpenFails
    \/ HeaderFails
    \/ WriteFails
    \/ Propagate
    \/ PutFlushFails
    \/ EndFlushFails

FaultSpec == FaultInit /\ [][FaultNext]_vars

----------------------------------------------------------------------------
(* Properties of unique_value, under GenSpec *)

\* C7: no identifier is ever returned twice by unique_value, whatever the
\* keys: repeated keys, keys with the same base, keys whose base is an
\* earlier "base_N"; so no identifier is issued for two different keys.
C7_NeverIssuedTwice ==
    \A i, j \in DOMAIN issued :
        i # j => issued[i].value # issued[j].value

\* a key equal to "ab_1" was issued, then the same key twice with base "ab":
\* the second had to skip the candidate "ab_1"
C7_Witness ==
    \E i, j, l \in DOMAIN issued :
        /\ i < j /\ j < l
        /\ issued[i].key = Candidate(issued[j].value, 1)
        /\ issued[i].value = issued[i].key
        /\ issued[j].key = issued[l].key
        /\ issued[l].value = Candidate(issued[j].value, 2)

\* the base as the claim words it: the characters that are letters, digits
\* or underscore, in order, "empty" if there are none
RECURSIVE Stripped(_)
Stripped(k) ==
    IF k = <<>> THEN <<>>
    ELSE IF Head(k) \in Letters \cup Digits \cup {"_"}
         THEN <<Head(k)>> \o Stripped(Tail(k))
         ELSE Stripped(Tail(k))

ClaimedBase(k) ==
    IF Stripped(k) = <<>> THEN <<"e", "m", "p", "t", "y">> ELSE Stripped(k)

Smallest(S) == CHOOSE x \in S : \A y \in S : x <= y

\* C9: unique_value(key) returns the sanitized base when it is unused (the
\* counter keeps its value), otherwise "base_c" for the smallest c >= counter
\* with "base_c" unused, and the counter ends at c + 1; the counter starts
\* at 1, so keys "a!b" then "a?b" yield "ab" then "ab_1".
C9_UniqueValueResult ==
    /\ ret.key # None =>
        LET base == ClaimedBase(ret.key)
            b == ret.before
            free == {c \in b.counter..(MaxUsize - 1) :
                        Candidate(base, c) \notin b.used}
        IN  IF base \notin b.used
            THEN /\ ~ret.panic
                 /\ ret.value = base
                 /\ gen.counter = b.counter
                 /\ gen.used = b.used \cup {base}
            ELSE IF free = {}
            THEN ret.panic
            ELSE /\ ~ret.panic
                 /\ ret.value = Candidate(base, Smallest(free))
                 /\ gen.counter = Smallest(free) + 1
                 /\ gen.used = b.used \cup {ret.value}
    /\ (/\ Len(issued) >= 2
        /\ issued[1].key = <<"a", "!", "b">>
        /\ issued[2].key = <<"a", "?", "b">>)
       => /\ issued[1].value = <<"a", "b">>
          /\ issued[2].value = <<"a", "b", "_", "1">>

\* a call that found its first candidate used and returned a later one
C9_Witness ==
    /\ ret.key # None
    /\ ~ret.panic
    /\ ClaimedBase(ret.key) \in ret.before.used
    /\ Candidate(ClaimedBase(ret.key), ret.before.counter) \in ret.before.used
    /\ gen.counter > ret.before.counter + 1

----------------------------------------------------------------------------
(* Properties of the partition run, under Spec *)

Headed == ~args.flag_no_headers

\* the keys of the records of the input
InputKey(i) == KeyOf(args, input[i][key_col])
InputKeys == {InputKey(i) : i \in DOMAIN input}

\* the destination a key was first opened at
FirstOpen(k) ==
    opens[Smallest({i \in DOMAIN opens : opens[i].key = k})]

\* the records of the input with key k, as they are to be written, in order
RecordsOf(k) ==
    LET idx == SelectSeq([i \in DOMAIN input |-> i],
                         LAMBDA i : InputKey(i) = k)
    IN  [n \in DOMAIN idx |-> Written(args, input[idx[n]])]

HeaderRecord == Written(args, Headers)

\* a file's records without the header record
Body(content) ==
    IF Headed /\ content # <<>> /\ content[1] = HeaderRecord
    THEN Tail(content) ELSE content

Occurrences(content, rec) ==
    Cardinality({i \in DOMAIN content : content[i] = rec})

\* C1: with capacity below the number of distinct keys, once the run is
\* complete every destination's content after the header is exactly the
\* records of its key, in input order; so the destinations are those of the
\* keys and each key's destination holds all its records.
C1_ReopenCorrectness ==
    (pc = "done" /\ args.flag_max_open_files < Cardinality(InputKeys)) =>
        /\ \A k \in InputKeys :
              Body(files[FirstOpen(k).path]) = RecordsOf(k)
        /\ DOMAIN files = {FirstOpen(k).path : k \in InputKeys}

\* C2: every open of a destination for one key, the first or a reopen, is
\* at the same identifier and the same path.
C2_StableIdentifier ==
    \A i, j \in DOMAIN opens :
        opens[i].key = opens[j].key =>
            /\ opens[i].value = opens[j].value
            /\ opens[i].path = opens[j].path

\* C3: the cache of writers never holds more than --max-open-files entries.
C3_CacheBound == LruLen(writers) <= args.flag_max_open_files

\* a writer was put in a full cache: more opens than the capacity
C3_Witness ==
    /\ pc = "write"
    /\ LruLen(writers) = args.flag_max_open_files
    /\ Len(opens) > args.flag_max_open_files

\* the writers that are open: those of the cache and the one new_writer has
\* returned and writer has not put in the cache yet
OpenWriters == LruLen(writers) + (IF wtr = None THEN 0 ELSE 1)

\* C4: at no point, the steps inside WriterPool::writer included, are more
\* than --max-open-files destinations open.
C4_OpenHandlesBound == OpenWriters <= args.flag_max_open_files

\* C5: with headers, once the run is complete every destination file holds
\* the header record exactly once, as its first record.
C5_HeaderOnce ==
    (pc = "done" /\ Headed) =>
        \A p \in DOMAIN files :
            /\ files[p] # <<>>
            /\ files[p][1] = HeaderRecord
            /\ Occurrences(files[p], HeaderRecord) = 1

\* C6: a miss for a key of seen_keys reopens the key's destination: the
\* writer is on the path the key was first opened at, nothing (no header) is
\* written to it, and the content of that destination is left as it was.
C6_ReopenAppends ==
    [][(pc = "writer" /\ pc' = "put" /\ key \in seen_keys) =>
          /\ wtr'[2].path = FirstOpen(key).path
          /\ wtr'[2].buf = <<>>
          /\ files'[FirstOpen(key).path] = files[FirstOpen(key).path]]_vars

NYC == <<"N", "Y", "C">>
LA == <<"L", "A">>

\* C8: unique_value is called once per distinct key, so after a run the
\* identifiers issued and the files created are as many as the distinct
\* keys; keys NYC, LA, NYC with capacity 1 give NYC.csv with the header and
\* rows 1 and 3, and LA.csv with the header and row 2.
C8_OneFilePerKey ==
    pc = "done" =>
        /\ Cardinality(gen.used) = Cardinality(InputKeys)
        /\ Cardinality(DOMAIN files) = Cardinality(InputKeys)
        /\ (/\ Len(input) = 3
            /\ InputKey(1) = NYC /\ InputKey(2) = LA /\ InputKey(3) = NYC
            /\ args.flag_max_open_files = 1
            /\ Headed)
           => /\ DOMAIN files = {NYC \o <<".csv">>, LA \o <<".csv">>}
              /\ files[NYC \o <<".csv">>] =
                    <<HeaderRecord, Written(args, input[1]),
                      Written(args, input[3])>>
              /\ files[LA \o <<".csv">>] =
                    <<HeaderRecord, Written(args, input[2])>>

\* the first n bytes of a value, the value itself when it is not longer
FirstBytes(v, n) == [i \in 1..(IF Len(v) < n THEN Len(v) ELSE n) |-> v[i]]

\* C10: with --prefix-length L the key of a record is the first L bytes of
\* its value (the value when not longer), for the cache, seen_keys and the
\* identifier, so that records whose values agree on their first L bytes
\* are written to the same destination.
C10_PrefixRouting ==
    args.flag_prefix_length # None =>
        LET L == args.flag_prefix_length[2]
        IN  /\ pc \in {"writer", "put", "write"} =>
                key = FirstBytes(row[key_col], L)
            /\ pc = "put" =>
                /\ opens[Len(opens)].key = FirstBytes(row[key_col], L)
                /\ key \in seen_keys
            /\ \A i, j \in DOMAIN routed :
                FirstBytes(input[i][key_col], L) = FirstBytes(input[j][key_col], L)
                    => routed[i] = routed[j]

----------------------------------------------------------------------------
(* The records written *)

SeqRange(s) == {s[i] : i \in DOMAIN s}

\* every record that has been written: on disk, in the buffer of a writer of
\* the cache, or in the buffer of the writer not yet in the cache
AllWritten ==
    UNION ({SeqRange(files[p]) : p \in DOMAIN files}
           \cup {SeqRange(writers.list[i].val.buf) : i \in DOMAIN writers.list}
           \cup (IF wtr = None THEN {} ELSE {SeqRange(wtr[2].buf)}))

\* the records read so far and the header record
Sources ==
    {input[i] : i \in 1..(pos - 1)} \cup (IF Headed THEN {Headers} ELSE {})

\* a record without its field c, the other fields in order
Omit(s, c) == [i \in 1..(Len(s) - 1) |-> IF i < c THEN s[i] ELSE s[i + 1]]

\* C11: with --drop every record and header written is a record of the
\* input, or the header, without the field of the key column and with all
\* its other fields in order; without --drop it is that record unchanged,
\* key column included.
C11_ColumnDrop ==
    pc \in {"read", "writer", "put", "write", "done", "failed"} =>
      \A rec \in AllWritten :
        \E s \in Sources :
            IF args.flag_drop
            THEN /\ rec = Omit(s, key_col)
                 /\ Len(rec) = Len(s) - 1
            ELSE /\ rec = s
                 /\ rec[key_col] = s[key_col]

\* a run with --drop and headers that has written a header and a record
C11_Witness ==
    /\ pc = "done"
    /\ args.flag_drop
    /\ Headed
    /\ \E p \in DOMAIN files : Len(files[p]) >= 2

----------------------------------------------------------------------------
(* The key column *)

NothingWritten == opens = <<>> /\ files = <<>> /\ routed = <<>> /\ pos = 1

\* C12 as stated: a selector of zero or several columns makes the run fail
\* with the configuration error, and when the error is returned no output
\* directory has been created, no destination opened, no record written.
C12_ErrorBeforeAnyIO ==
    /\ (Len(args.arg_column) # 1 /\ pc \notin {"run", "partition"}) =>
            pc = "failed" /\ result = Err(ConfigError)
    /\ result = Err(ConfigError) => ~outdir /\ NothingWritten

\* C12 amended: a selector of zero or several columns makes the run fail
\* with the configuration error; when the error is returned no destination
\* has been opened and no record read or written, but run has already
\* created the output directory.
C12_ErrorBeforeDestinations ==
    /\ (Len(args.arg_column) # 1 /\ pc \notin {"run", "partition"}) =>
            pc = "failed" /\ result = Err(ConfigError)
    /\ result = Err(ConfigError) =>
            outdir /\ NothingWritten /\ Len(args.arg_column) # 1

\* the run has failed on a selector of two columns
C12_Witness ==
    /\ pc = "failed"
    /\ result = Err(ConfigError)
    /\ Len(args.arg_column) = 2

----------------------------------------------------------------------------
(* Properties of the run with I/O failures, under FaultSpec *)

Exited == pc \in {"done", "failed"}

\* C13: an I/O failure while opening, writing or flushing a destination (the
\* flush of an evicted writer and of the writers left at the end included)
\* makes the run stop and return the error: after a failure the run does
\* not go on and does not return Ok.
C13_IoErrorsPropagate ==
    failures # <<>> =>
        /\ pc \in {"error", "failed"}
        /\ result = Err(IoError)

\* C14: when the open fails on a miss, writer returns the Err at once: the
\* cache is as it was before the call, the key is not resident, nothing was
\* evicted, and no further open was tried.
C14_OpenFailureKeepsCache ==
    [][(pc = "writer" /\ pc' = "error"
            /\ failures'[Len(failures')].op = "open") =>
          /\ writers' = writers
          /\ ~LruContains(writers', key)
          /\ closes' = closes
          /\ opens' = opens
          /\ result' = Err(IoError)]_vars

\* an open has failed on a miss of a full cache
C14_Witness ==
    /\ pc = "error"
    /\ failures # <<>>
    /\ failures[Len(failures)].op = "open"
    /\ LruLen(writers) = args.flag_max_open_files

OpenedPaths == {opens[i].path : i \in DOMAIN opens}

NoFlushFailed == \A i \in DOMAIN failures : failures[i].op # "flush"

\* C15: when the run has returned, at the end of the input or on an error,
\* no writer is open: every writer that was opened has been dropped once
\* (flushed and closed), and, where no flush failed, every record written
\* is in its file.
C15_AllWritersClosed ==
    Exited =>
        /\ OpenWriters = 0
        /\ SeqRange(closes) = OpenedPaths
        /\ Len(closes) = Len(opens)
        /\ NoFlushFailed =>
              \A i \in DOMAIN routed :
                  Written(args, input[i]) \in SeqRange(files[routed[i]])

\* the run has returned an error of a write with two writers opened
C15_Witness ==
    /\ pc = "failed"
    /\ failures # <<>>
    /\ failures[1].op = "write"
    /\ Len(opens) >= 2
    /\ routed # <<>>

----------------------------------------------------------------------------
(* Properties of the cache of writers *)

\* the writer the cache holds for a resident key
ValOf(c, k) == (CHOOSE e \in SeqRange(c.list) : e.key = k).val

\* C16: a writer call for a resident key makes the key the most recently
\* used and returns the writer the cache held for it; the other entries keep
\* their order, nothing is opened, written, evicted or dropped, and
\* seen_keys, used and the counter keep their values.
C16_HitOnlyPromotes ==
    [][(pc = "writer" /\ LruContains(writers, key)) =>
          /\ pc' = "write"
          /\ writers'.list[1] = [key |-> key, val |-> ValOf(writers, key)]
          /\ Tail(writers'.list) = LruRemove(writers.list, key)
          /\ writers'.cap = writers.cap
          /\ UNCHANGED <<files, opens, closes, seen_keys, gen, wtr, routed>>]_vars

\* the third record has the key of the first, the second another one, and
\* both are resident: the hit has moved the key from the second place
C16_Witness ==
    /\ pc = "write"
    /\ pos = 4
    /\ args.flag_max_open_files = 2
    /\ InputKey(1) = InputKey(3)
    /\ InputKey(2) # InputKey(1)
    /\ Len(opens) = 2

Largest(S) == CHOOSE x \in S : \A y \in S : x >= y

\* the latest request of key k before the request writer is serving
LastRequest(k) == Largest({i \in 1..(pos - 2) : InputKey(i) = k})

\* the resident key whose latest request is the oldest, and the newest
Oldest(c) ==
    CHOOSE k \in LruKeys(c) :
        \A o \in LruKeys(c) : LastRequest(k) <= LastRequest(o)
Newest(c) ==
    CHOOSE k \in LruKeys(c) :
        \A o \in LruKeys(c) : LastRequest(k) >= LastRequest(o)

\* C17: a miss on a full cache evicts exactly one entry, that of the
\* resident key whose latest request is the oldest, and drops its writer;
\* with a capacity of 2 or more it is never the key requested latest; the
\* look-up of the miss leaves the cache as it is.
C17_EvictsLeastRecent ==
    [][/\ (pc = "writer" /\ pc' = "put") => writers' = writers
       /\ (pc = "put" /\ LruLen(writers) = args.flag_max_open_files) =>
            /\ LruKeys(writers') = (LruKeys(writers) \ {Oldest(writers)})
                                        \cup {key}
            /\ LruLen(writers') = LruLen(writers)
            /\ closes' = Append(closes, ValOf(writers, Oldest(writers)).path)
            /\ args.flag_max_open_files >= 2 =>
                    Newest(writers) \in LruKeys(writers')]_vars

\* keys a, b, a, c with capacity 2: the fourth request has evicted b, the
\* key put in the cache last, and kept a
C17_Witness ==
    /\ pc = "write"
    /\ pos = 5
    /\ args.flag_max_open_files = 2
    /\ InputKey(1) = InputKey(3)
    /\ InputKey(2) \notin {InputKey(1), InputKey(4)}
    /\ InputKey(4) # InputKey(1)
    /\ LruKeys(writers) = {InputKey(1), InputKey(4)}

----------------------------------------------------------------------------
(* The counter of unique_value, under GenSpec *)

IssuedValues == {issued[i].value : i \in DOMAIN issued}

\* C18: the counter of CounterBits bits never wraps around: it stays
\* between 1 and usize::MAX and never decreases; a call that would have to
\* increment it past usize::MAX panics, returns nothing, and the run is
\* over; no call returns a value issued before.
C18_NoWrapAround ==
    /\ [](gen.counter \in 1..MaxUsize)
    /\ [](pc = "panicked" => ret.panic /\ ret.value = None
                                /\ gen.counter = MaxUsize)
    /\ [][/\ gen'.counter >= gen.counter
          /\ pc = "gen"
          /\ ret'.panic <=> pc' = "panicked"
          /\ ret'.panic => issued' = issued
          /\ ~ret'.panic => ret'.value \notin IssuedValues]_vars

\* a call has panicked on the counter
C18_Witness ==
    /\ pc = "panicked"
    /\ ret.panic
    /\ Len(issued) >= MaxUsize

----------------------------------------------------------------------------
(* The look-up at the end of WriterPool::writer, and seen_keys *)

\* C19: whenever writer is past opening the writer, the key is resident at
\* the last look-up: the unwrap never fails, and when writer returns the key
\* is the most recently used entry.
C19_UnwrapNeverFails ==
    /\ pc # "unwrap_none"
    /\ pc = "write" =>
        /\ LruContains(writers, key)
        /\ writers.list[1].key = key
        /\ LruLen(writers) <= args.flag_max_open_files

\* writer has returned the writer of a key it reopened
C19_Witness ==
    /\ pc = "write"
    /\ opens # <<>>
    /\ opens[Len(opens)].kind = "re_open"
    /\ opens[Len(opens)].key = key
    /\ writers.list[1].val.path = opens[Len(opens)].path

\* C20: every key resident in the cache is in seen_keys, and no step
\* removes an element of seen_keys or of used.
C20_SeenKeysGrow ==
    /\ [](pc \notin {"run", "gen"} => LruKeys(writers) \subseteq seen_keys)
    /\ [][seen_keys \subseteq seen_keys' /\ gen.used \subseteq gen'.used]_vars

\* a key has been evicted and another reopened: seen_keys holds more than the
\* resident keys and used more than seen_keys
C20_Witness ==
    /\ pc = "write"
    /\ LruKeys(writers) # {}
    /\ LruKeys(writers) # seen_keys
    /\ Cardinality(gen.used) > Cardinality(seen_keys)

====
